---- MODULE Spec2Model ----
(***************************************************************************)
(* Model of dynisland's runtime core (src/src/app.rs, src/src/config.rs):  *)
(* the UI command consumer, the backend (reload) command consumer, the     *)
(* file watcher callback and the producer runtime lifecycle.               *)
(*                                                                         *)
(* Threads.  The two consumers are tasks of ONE glib main context (the UI  *)
(* thread): a task runs until it reaches an await that is pending, and     *)
(* only then may the other task run.  A blocking call (blocking_lock) on   *)
(* that thread that cannot succeed stops both tasks for good.  The watcher *)
(* callback, the producer tasks and the runtime worker threads run on      *)
(* other threads and interleave freely.                                    *)
(***************************************************************************)
EXTENDS Integers, Sequences, FiniteSets, TLC

\* ---------------------------------------------------------------- bounds
MaxCmds == 3       \* UI commands sent over a run
MaxReloads == 2    \* ReloadConfig commands over a run (bounds the generations)
MaxListed == 3     \* names in a document's loaded_modules (startup documents)

\* ------------------------------------------------------- static registries
\* MODULES / LAYOUTS: the compile-time (name, constructor) tables.
MODULES == <<"A", "B">>
LAYOUTS == <<"SimpleLayout", "GridLayout">>
simple_layout_NAME == "SimpleLayout"

Range(s) == {s[i] : i \in DOMAIN s}
ModuleIds == Range(MODULES)
ActNames == {"x"}
Activities == ModuleIds \X ActNames
Gens == 0..MaxReloads
Regs == ModuleIds \X (1..MaxCmds)

\* ----------------------------------------------------------------- config
\* Option<String> is a sequence of length 0 (None) or 1 (Some).
GeneralConfigDefault == [minimal_height |-> 40]
ConfigDefault ==
    [loaded_modules |-> <<"all">>,
     layout |-> <<"SimpleLayout">>,
     general_style_config |-> GeneralConfigDefault,
     layout_configs |-> <<>>,
     module_config |-> <<>>]

\* A document the user may have on disk.
Doc1 ==
    [loaded_modules |-> <<"A", "Z">>,
     layout |-> <<"GridLayout">>,
     general_style_config |-> [minimal_height |-> 50],
     layout_configs |-> ("GridLayout" :> 1 @@ "SimpleLayout" :> 2),
     module_config |-> ("A" :> 1)]

\* What the config directory holds: dynisland.ron (parsable or not) and
\* dynisland.scss (compilable or not).
DiskStates ==
    {[ron_ok |-> TRUE, ron |-> Doc1, scss_ok |-> TRUE, scss |-> 1],
     [ron_ok |-> FALSE, ron |-> ConfigDefault, scss_ok |-> FALSE, scss |-> 0]}

\* The documents a user may start the program with: any list of names (known
\* modules, an unknown one, the sentinel), any layout entry, blocks or none.
ListedNames == {"A", "B", "Z", "all"}
ListsUpTo(n) == UNION {[1..k -> ListedNames] : k \in 0..n}
LayoutEntries == {<<>>, <<"SimpleLayout">>, <<"GridLayout">>, <<"NoSuchLayout">>}
StartupDocs ==
    [loaded_modules : ListsUpTo(MaxListed),
     layout : LayoutEntries,
     general_style_config : {[minimal_height |-> 50]},
     layout_configs : {Doc1.layout_configs},
     module_config : {Doc1.module_config}]
StartupDisks ==
    [ron_ok : BOOLEAN, ron : StartupDocs, scss_ok : {TRUE}, scss : {1}]

\* Mutant: a document that fails to parse is used as it is.
get_config_KeepsContent(content) == content.ron

get_config(content) == IF content.ron_ok THEN content.ron ELSE ConfigDefault

\* grass::from_path + css_provider.load_from_string: a compile error keeps
\* what the provider holds.
load_css(content, installed) == IF content.scss_ok THEN content.scss ELSE installed

RECURSIVE LoadListed(_)
LoadListed(names) ==
    IF names = <<>> THEN <<>>
    ELSE IF Head(names) \in ModuleIds
         THEN <<Head(names)>> \o LoadListed(Tail(names))
         ELSE LoadListed(Tail(names))

\* Mutant: the listed modules are loaded in registry-definition order.
load_modules_RegistryOrder(loaded) ==
    IF "all" \in Range(loaded) THEN MODULES
    ELSE SelectSeq(MODULES, LAMBDA n : n \in Range(loaded))

load_modules(loaded) ==
    IF "all" \in Range(loaded) THEN MODULES ELSE LoadListed(loaded)

load_layout_manager(layout) ==
    LET layout_to_load == IF layout = <<>> THEN simple_layout_NAME ELSE layout[1]
    IN IF layout_to_load \in Range(LAYOUTS) THEN layout_to_load ELSE simple_layout_NAME

\* The instances load_layout_manager constructs: the constructor of the
\* matching LAYOUTS entry, and SimpleLayout::new(), the argument of
\* unwrap_or, which is evaluated whether or not an entry matched.
layouts_constructed(layout) ==
    LET layout_to_load == IF layout = <<>> THEN simple_layout_NAME ELSE layout[1]
    IN (IF layout_to_load \in Range(LAYOUTS) THEN 1 ELSE 0) + 1

\* module.parse_config(conf) for the block of module m, if the config has one.
ParsedModuleConfig(cfg, m, old) ==
    IF m \in DOMAIN cfg.module_config THEN cfg.module_config[m] ELSE old

\* layout.parse_config(conf) for the block keyed by the active layout's name.
ParsedLayoutConfig(cfg, name, old) ==
    IF name \in DOMAIN cfg.layout_configs THEN cfg.layout_configs[name] ELSE old

\* --------------------------------------------------------------- state
VARIABLES
    phase,            \* "new" (App::default()) or "running" (after startup)
    disk,             \* content of the config directory
    config,           \* App.config
    css,              \* what App.css_provider holds (0: nothing loaded)
    mod_cfg,          \* per module: the block it last parsed (0: none)
    layout_cfg,       \* the block the layout last parsed (0: none)
    module_map,       \* keys of App.module_map
    module_order,     \* what load_modules returned
    layout_name,      \* name of the active layout instance ("" before startup)
    layout_built,     \* LayoutManager instances constructed so far
    layout_acts,      \* activities the layout manager holds
    act_map,          \* per module: names in its registered-activities map
    producers,        \* per module: its registered producers, in order
    height,           \* per activity widget: minimal height set (0: never)
    map_lock,         \* holder of the module_map mutex
    layout_lock,      \* holder of the layout mutex
    actmap_lock,      \* per module: holder of its activity-map mutex
    act_lock,         \* per activity: whether a producer task holds its mutex
    ui_queue,         \* UIServerCommand channel
    ui_pc,            \* position of the UI command consumer
    ui_cmd,           \* the command it is handling (NoCmd between commands)
    ui_rt,            \* `rt`: the handle the consumer captured
    ui_style,         \* the general_style_config the consumer captured
    server_queue,     \* number of ReloadConfig commands in the channel
    be_pc,            \* position of the server command consumer
    be_steps,         \* pipeline steps finished in the current/last run
    be_mods,          \* update_general_configs: modules left, the head being visited
    be_acts,          \* update_general_configs: its activities left, in order
    producers_handle, \* App.producers_handle: generation of the handle
    producers_shutdown, \* App.producers_shutdown: generation of the sender
    worker,           \* per generation: state of its worker thread
    inv,              \* per (producer, generation): invocations, a producer being (module, index)
    tasks,            \* (producer, generation): live producer tasks
    sent              \* UI commands sent so far

cfgVars == <<disk, config, css, mod_cfg, layout_cfg>>
regVars == <<module_map, module_order, layout_name, layout_built, layout_acts,
            act_map, producers, height>>
lockVars == <<map_lock, layout_lock, actmap_lock, act_lock>>
uiVars == <<ui_queue, ui_pc, ui_cmd, ui_rt, ui_style>>
beVars == <<server_queue, be_pc, be_steps, be_mods, be_acts>>
rtVars == <<producers_handle, producers_shutdown, worker, inv, tasks>>
envVars == <<phase, sent>>
vars == <<cfgVars, regVars, lockVars, uiVars, beVars, rtVars, envVars>>

NoCmd == [kind |-> "none", module |-> "", name |-> ""]
CmdKinds == {"AddProducer", "AddActivity", "RemoveActivity"}
Commands == [kind : CmdKinds, module : ModuleIds, name : ActNames]

\* A panic of a task of the glib main context ends the process.
PanicPcs == {"panic_module_not_found", "panic_activity_not_found"}
Aborted == ui_pc \in PanicPcs

\* Positions at which a consumer is suspended in a pending await.
UISuspendedPcs == {"idle", "ap_lock_wait", "aa_style_wait", "aa_lock_wait",
                   "ra_lock_wait", "ra_act_wait", "ra_unreg_wait"}
BESuspendedPcs == {"idle", "settle", "upd_act_wait"}
UISuspended == ui_pc \in UISuspendedPcs
BESuspended == be_pc \in BESuspendedPcs

\* The UI thread may poll the UI consumer / the server consumer.
UIMayRun == phase = "running" /\ ~Aborted /\ (UISuspended => BESuspended)
BEMayRun == phase = "running" /\ ~Aborted /\ (BESuspended => UISuspended)

\* The server consumer is inside a blocking_lock() that cannot return: the
\* mutex is held by (or handed to) the UI consumer, which shares its thread.
BEBlocked ==
    \/ be_pc \in {"load_configs", "update_general_configs", "restart_replay"}
          /\ map_lock # "none"
    \/ be_pc = "load_layout_config" /\ layout_lock # "none"

InitFrom(disks) ==
    /\ phase = "new"
    /\ disk \in disks
    /\ config = ConfigDefault
    /\ css = 0
    /\ mod_cfg = [m \in ModuleIds |-> 0]
    /\ layout_cfg = 0
    /\ module_map = {}
    /\ module_order = <<>>
    /\ layout_name = ""
    /\ layout_built = 0
    /\ layout_acts = {}
    /\ act_map = [m \in ModuleIds |-> {}]
    /\ producers = [m \in ModuleIds |-> <<>>]
    /\ height = [a \in Activities |-> 0]
    /\ map_lock = "none"
    /\ layout_lock = "none"
    /\ actmap_lock = [m \in ModuleIds |-> "none"]
    /\ act_lock = [a \in Activities |-> FALSE]
    /\ ui_queue = <<>>
    /\ ui_pc = "idle"
    /\ ui_cmd = NoCmd
    /\ ui_rt = 0
    /\ ui_style = GeneralConfigDefault
    /\ server_queue = 0
    /\ be_pc = "idle"
    /\ be_steps = <<>>
    /\ be_mods = <<>>
    /\ be_acts = <<>>
    /\ producers_handle = 0
    /\ producers_shutdown = 0
    /\ worker = [g \in Gens |-> IF g = 0 THEN "alive" ELSE "none"]
    /\ inv = [k \in Regs \X Gens |-> 0]
    /\ tasks = {}
    /\ sent = 0

Init == InitFrom(DiskStates)

\* initialize_server up to app.run(): load css, modules, layout, configs.
InitializeServer ==
    /\ phase = "new"
    /\ LET cfg == get_config(disk)
           order == load_modules(cfg.loaded_modules)
           lay == load_layout_manager(cfg.layout)
       IN /\ css' = load_css(disk, css)
          /\ config' = cfg
          /\ module_order' = order
          /\ module_map' = Range(order)
          /\ layout_name' = lay
          /\ layout_built' = layout_built + layouts_constructed(cfg.layout)
          /\ mod_cfg' = [m \in ModuleIds |->
                           IF m \in Range(order)
                           THEN ParsedModuleConfig(cfg, m, mod_cfg[m])
                           ELSE mod_cfg[m]]
          /\ layout_cfg' = ParsedLayoutConfig(cfg, lay, layout_cfg)
          /\ ui_rt' = producers_handle
          /\ ui_style' = cfg.general_style_config
    /\ phase' = "running"
    /\ UNCHANGED <<disk, layout_acts, act_map, producers, height, lockVars,
                   ui_queue, ui_pc, ui_cmd, beVars, rtVars, sent>>


\* ------------------------------------------------- environment actions
\* The ReloadConfig commands sent so far: handled, being handled or waiting.
Requested ==
    producers_handle + server_queue
    + (IF be_pc \in {"idle", "restart_replay"} THEN 0 ELSE 1)

\* A module (from init()) or a producer task sends a UI command.
EnvSend(cmd) ==
    /\ phase = "running" /\ ~Aborted
    /\ sent < MaxCmds
    /\ ui_queue' = Append(ui_queue, cmd)
    /\ sent' = sent + 1
    /\ UNCHANGED <<cfgVars, regVars, lockVars, ui_pc, ui_cmd, ui_rt, ui_style,
                   beVars, rtVars, phase>>

\* The notify watcher callback: Create and Modify events (the directory has
\* new content) send ReloadConfig, every other kind is ignored.
WatcherEvent(kind, content) ==
    /\ phase = "running" /\ ~Aborted
    /\ kind \in {"Create", "Modify"} => Requested < MaxReloads
    /\ disk' = IF kind \in {"Create", "Modify"} THEN content ELSE disk
    /\ server_queue' = IF kind \in {"Create", "Modify"}
                       THEN server_queue + 1 ELSE server_queue
    /\ UNCHANGED <<config, css, mod_cfg, layout_cfg, regVars, lockVars, uiVars,
                   be_pc, be_steps, be_mods, be_acts, rtVars, envVars>>

\* ------------------------------------------------------ producer runtime
\* producer(module, handle, app_send): the producer spawns its background
\* task on the runtime behind `handle`; a runtime that is gone runs nothing.
InvokedOn(iv, regs, g) ==
    [k \in DOMAIN iv |->
        IF k[2] = g /\ k[1] \in regs THEN iv[k] + 1 ELSE iv[k]]

SpawnedOn(ts, regs, g, w) ==
    IF w[g] = "stopped" THEN ts ELSE ts \cup {<<r, g>> : r \in regs}

\* Mutant: the worker thread returns and leaves its runtime's tasks behind.
WorkerExit_KeepsTasks(g) ==
    /\ ~Aborted
    /\ worker[g] = "signalled"
    /\ worker' = [worker EXCEPT ![g] = "stopped"]
    /\ UNCHANGED <<cfgVars, regVars, lockVars, uiVars, beVars, producers_handle,
                   producers_shutdown, inv, tasks, envVars>>

\* The worker thread of generation g: block_on(shutdown_recv.recv()) returns,
\* the runtime is dropped and with it every task spawned on it, which frees
\* the activity mutexes those tasks held (any held one may be theirs, and
\* all are when no other task is left).
WorkerExit(g) ==
    /\ ~Aborted
    /\ worker[g] = "signalled"
    /\ worker' = [worker EXCEPT ![g] = "stopped"]
    /\ tasks' = {t \in tasks : t[2] # g}
    /\ \E kept \in SUBSET {a \in Activities : act_lock[a]} :
          /\ (\A t \in tasks : t[2] = g) => kept = {}
          /\ act_lock' = [a \in Activities |-> a \in kept]
    /\ UNCHANGED <<cfgVars, regVars, map_lock, layout_lock, actmap_lock, uiVars,
                   beVars, producers_handle, producers_shutdown, inv, envVars>>

\* The activities that exist: sent to the UI consumer at some time.
Created ==
    {a \in Activities :
        \/ a \in layout_acts
        \/ a[2] \in act_map[a[1]]
        \/ \E i \in DOMAIN ui_queue :
              ui_queue[i] = [kind |-> "AddActivity", module |-> a[1], name |-> a[2]]
        \/ ui_cmd = [kind |-> "AddActivity", module |-> a[1], name |-> a[2]]}

\* A live producer task locks an activity to update its widget.
ProducerLock(a) ==
    /\ ~Aborted
    /\ tasks # {}
    /\ a \in Created
    /\ ~act_lock[a]
    /\ act_lock' = [act_lock EXCEPT ![a] = TRUE]
    /\ UNCHANGED <<cfgVars, regVars, map_lock, layout_lock, actmap_lock, uiVars,
                   beVars, rtVars, envVars>>

ProducerUnlock(a) ==
    /\ ~Aborted
    /\ act_lock[a]
    /\ act_lock' = [act_lock EXCEPT ![a] = FALSE]
    /\ UNCHANGED <<cfgVars, regVars, map_lock, layout_lock, actmap_lock, uiVars,
                   beVars, rtVars, envVars>>

\* ------------------------------------------------- UI command consumer
CmdAct == <<ui_cmd.module, ui_cmd.name>>

\* app_recv.recv().await returns the next command.
UIRecv ==
    /\ UIMayRun
    /\ ui_pc = "idle"
    /\ ui_queue # <<>>
    /\ ui_cmd' = Head(ui_queue)
    /\ ui_queue' = Tail(ui_queue)
    /\ ui_pc' = CASE Head(ui_queue).kind = "AddProducer" -> "ap_lock"
                  [] Head(ui_queue).kind = "AddActivity" -> "aa_layout"
                  [] OTHER -> "ra_lock"
    /\ UNCHANGED <<cfgVars, regVars, lockVars, ui_rt, ui_style, beVars, rtVars,
                   envVars>>

\* module_map.lock().await finds the mutex taken: the task waits in its queue.
UIMapLockWait ==
    /\ UIMayRun
    /\ ui_pc \in {"ap_lock", "aa_lock", "ra_lock"}
    /\ map_lock # "none"
    /\ ui_pc' = CASE ui_pc = "ap_lock" -> "ap_lock_wait"
                  [] ui_pc = "aa_lock" -> "aa_lock_wait"
                  [] OTHER -> "ra_lock_wait"
    /\ UNCHANGED <<cfgVars, regVars, lockVars, ui_queue, ui_cmd, ui_rt, ui_style,
                   beVars, rtVars, envVars>>

\* The consumer gets the module_map mutex at `at`: free, or handed to it.
UIGetsMapLock(at, waiting) ==
    \/ ui_pc = at /\ map_lock = "none"
    \/ ui_pc = waiting /\ map_lock = "ui"

\* module.register_producer(producer): append to the module's producers.
register_producer(ps, m, p) == [ps EXCEPT ![m] = Append(@, p)]

\* Mutant: an unknown module identifier is not fatal, the producer is
\* registered and invoked all the same.
UIAddProducer_UnknownIsRegistered ==
    /\ UIMayRun
    /\ UIGetsMapLock("ap_lock", "ap_lock_wait")
    /\ LET m == ui_cmd.module
           reg == <<m, Len(producers[m]) + 1>>
       IN /\ producers' = register_producer(producers, m, ui_cmd.name)
          /\ inv' = InvokedOn(inv, {reg}, ui_rt)
          /\ tasks' = SpawnedOn(tasks, {reg}, ui_rt, worker)
          /\ map_lock' = "none"
          /\ ui_pc' = "idle"
    /\ ui_cmd' = NoCmd
    /\ UNCHANGED <<cfgVars, module_map, module_order, layout_name, layout_built,
                   layout_acts,
                   act_map, height, layout_lock, actmap_lock, act_lock,
                   ui_queue, ui_rt, ui_style, beVars,
                   producers_handle, producers_shutdown, worker, envVars>>

\* AddProducer: lock, look the module up, register, invoke with `rt`.
UIAddProducer ==
    /\ UIMayRun
    /\ UIGetsMapLock("ap_lock", "ap_lock_wait")
    /\ IF ui_cmd.module \notin module_map
       THEN /\ ui_pc' = "panic_module_not_found"
            /\ map_lock' = "ui"
            /\ UNCHANGED <<producers, inv, tasks>>
       ELSE LET m == ui_cmd.module
                reg == <<m, Len(producers[m]) + 1>>
            IN /\ producers' = register_producer(producers, m, ui_cmd.name)
               /\ inv' = InvokedOn(inv, {reg}, ui_rt)
               /\ tasks' = SpawnedOn(tasks, {reg}, ui_rt, worker)
               /\ map_lock' = "none"
               /\ ui_pc' = "idle"
    /\ ui_cmd' = IF ui_pc' = "idle" THEN NoCmd ELSE ui_cmd
    /\ UNCHANGED <<cfgVars, module_map, module_order, layout_name, layout_built,
                   layout_acts,
                   act_map, height, layout_lock, actmap_lock, act_lock,
                   ui_queue, ui_rt, ui_style, beVars,
                   producers_handle, producers_shutdown, worker, envVars>>

\* layout.add_activity / layout.remove_activity
layout_add_activity(acts, a) == acts \cup {a}
layout_remove_activity(acts, a) == acts \ {a}

\* Mutant: the handler forgets the layout insertion.
UIAddActivityLayout_NoInsert ==
    /\ ui_pc = "aa_layout"
    /\ layout_lock = "none"
    /\ ui_pc' = "aa_style"
    /\ UNCHANGED <<cfgVars, regVars, lockVars, ui_queue, ui_cmd, ui_rt,
                   ui_style, beVars, rtVars, envVars>>

\* AddActivity, first statement: layout.lock().await.add_activity(activity).
UIAddActivityLayout ==
    /\ ui_pc = "aa_layout"
    /\ layout_lock = "none"
    /\ layout_acts' = layout_add_activity(layout_acts, CmdAct)
    /\ ui_pc' = "aa_style"
    /\ UNCHANGED <<cfgVars, module_map, module_order, layout_name, layout_built,
                   act_map,
                   producers, height, lockVars, ui_queue, ui_cmd, ui_rt,
                   ui_style, beVars, rtVars, envVars>>

\* update_general_configs_on_activity(config, activity): lock the activity,
\* set its widget's minimal height.
StyledWith(h, a, general) == [h EXCEPT ![a] = general.minimal_height]

\* AddActivity, second statement, with the general config the task captured.
UIAddActivityStyle ==
    /\ UIMayRun
    /\ ui_pc \in {"aa_style", "aa_style_wait"}
    /\ IF ~act_lock[CmdAct]
       THEN /\ height' = StyledWith(height, CmdAct, ui_style)
            /\ ui_pc' = "aa_lock"
       ELSE /\ ui_pc' = "aa_style_wait"
            /\ UNCHANGED height
    /\ UNCHANGED <<cfgVars, module_map, module_order, layout_name, layout_built,
                   layout_acts,
                   act_map, producers, lockVars, ui_queue, ui_cmd, ui_rt,
                   ui_style, beVars, rtVars, envVars>>

\* module.register_activity(activity): insert into the module's map, under
\* the map's own mutex.
register_activity(am, m, n) == [am EXCEPT ![m] = @ \cup {n}]
unregister_activity(am, m, n) == [am EXCEPT ![m] = @ \ {n}]

\* Mutant: the handler looks the module up and forgets the registration.
UIAddActivityRegister_NoInsert ==
    /\ UIMayRun
    /\ UIGetsMapLock("aa_lock", "aa_lock_wait")
    /\ IF ui_cmd.module \notin module_map
       THEN /\ ui_pc' = "panic_module_not_found"
            /\ map_lock' = "ui"
       ELSE /\ map_lock' = "none"
            /\ ui_pc' = "idle"
    /\ ui_cmd' = IF ui_pc' = "idle" THEN NoCmd ELSE ui_cmd
    /\ UNCHANGED <<cfgVars, regVars, layout_lock, actmap_lock, act_lock,
                   ui_queue, ui_rt, ui_style, beVars, rtVars, envVars>>

\* AddActivity, the rest: lock module_map, look the module up, register.
UIAddActivityRegister ==
    /\ UIMayRun
    /\ UIGetsMapLock("aa_lock", "aa_lock_wait")
    /\ IF ui_cmd.module \notin module_map
       THEN /\ ui_pc' = "panic_module_not_found"
            /\ map_lock' = "ui"
            /\ UNCHANGED act_map
       ELSE /\ actmap_lock[ui_cmd.module] = "none"
            /\ act_map' = register_activity(act_map, ui_cmd.module, ui_cmd.name)
            /\ map_lock' = "none"
            /\ ui_pc' = "idle"
    /\ ui_cmd' = IF ui_pc' = "idle" THEN NoCmd ELSE ui_cmd
    /\ UNCHANGED <<cfgVars, module_map, module_order, layout_name, layout_built,
                   layout_acts,
                   producers, height, layout_lock, actmap_lock, act_lock,
                   ui_queue, ui_rt, ui_style, beVars, rtVars, envVars>>

\* RemoveActivity: lock module_map, look the module up, lock its activity
\* map (the guard lives to the end of the arm), get_activity(&name).unwrap().
UIRemoveLookup ==
    /\ UIMayRun
    /\ UIGetsMapLock("ra_lock", "ra_lock_wait")
    /\ map_lock' = "ui"
    /\ IF ui_cmd.module \notin module_map
       THEN /\ ui_pc' = "panic_module_not_found"
            /\ UNCHANGED actmap_lock
       ELSE /\ actmap_lock[ui_cmd.module] = "none"
            /\ actmap_lock' = [actmap_lock EXCEPT ![ui_cmd.module] = "ui"]
            /\ ui_pc' = IF ui_cmd.name \in act_map[ui_cmd.module]
                        THEN "ra_layout" ELSE "panic_activity_not_found"
    /\ UNCHANGED <<cfgVars, regVars, layout_lock, act_lock, ui_queue, ui_cmd,
                   ui_rt, ui_style, beVars, rtVars, envVars>>

\* layout.lock().await.remove_activity(&act.lock().await.get_identifier()):
\* the layout guard is taken first and held while the activity is locked.
UIRemoveLayout ==
    /\ UIMayRun
    /\ \/ ui_pc = "ra_layout" /\ layout_lock = "none"
       \/ ui_pc = "ra_act_wait" /\ layout_lock = "ui"
    /\ IF ~act_lock[CmdAct]
       THEN /\ layout_acts' = layout_remove_activity(layout_acts, CmdAct)
            /\ layout_lock' = "none"
            /\ ui_pc' = "ra_unreg"
       ELSE /\ layout_lock' = "ui"
            /\ ui_pc' = "ra_act_wait"
            /\ UNCHANGED layout_acts
    /\ UNCHANGED <<cfgVars, module_map, module_order, layout_name, layout_built,
                   act_map,
                   producers, height, map_lock, actmap_lock, act_lock,
                   ui_queue, ui_cmd, ui_rt, ui_style, beVars, rtVars, envVars>>

\* module.unregister_activity(&name).await, which locks the module's activity
\* map; then the arm ends and drops the guards it holds.
UIRemoveUnregister ==
    /\ UIMayRun
    /\ ui_pc \in {"ra_unreg", "ra_unreg_wait"}
    /\ IF actmap_lock[ui_cmd.module] = "none"
       THEN /\ act_map' = unregister_activity(act_map, ui_cmd.module, ui_cmd.name)
            /\ map_lock' = "none"
            /\ ui_pc' = "idle"
       ELSE /\ ui_pc' = "ra_unreg_wait"
            /\ UNCHANGED <<act_map, map_lock>>
    /\ ui_cmd' = IF ui_pc' = "idle" THEN NoCmd ELSE ui_cmd
    /\ UNCHANGED <<cfgVars, module_map, module_order, layout_name, layout_built,
                   layout_acts,
                   producers, height, layout_lock, actmap_lock, act_lock,
                   ui_queue, ui_rt, ui_style, beVars, rtVars, envVars>>

UIStep ==
    \/ UIRecv
    \/ UIMapLockWait
    \/ UIAddProducer
    \/ UIAddActivityLayout
    \/ UIAddActivityStyle
    \/ UIAddActivityRegister
    \/ UIRemoveLookup
    \/ UIRemoveLayout
    \/ UIRemoveUnregister


\* ---------------------------------------------- server command consumer
\* The iteration orders a HashMap may give for a set of keys.
RECURSIVE Orders(_)
Orders(S) ==
    IF S = {} THEN {<<>>}
    ELSE UNION {{<<x>> \o rest : rest \in Orders(S \ {x})} : x \in S}

\* Dropping a module_map guard: the mutex is fair, a waiting task gets it.
MapLockReleased ==
    IF ui_pc \in {"ap_lock_wait", "aa_lock_wait", "ra_lock_wait"}
    THEN "ui" ELSE "none"

\* server_recv.recv().await returns a ReloadConfig; the settle delay starts.
BERecv ==
    /\ BEMayRun
    /\ be_pc = "idle"
    /\ server_queue > 0
    /\ server_queue' = server_queue - 1
    /\ be_pc' = "settle"
    /\ be_steps' = <<>>
    /\ UNCHANGED <<cfgVars, regVars, lockVars, uiVars, be_mods, be_acts, rtVars,
                   envVars>>

\* glib::timeout_future(50ms).await is over.
BESettle ==
    /\ BEMayRun
    /\ be_pc = "settle"
    /\ be_pc' = "load_configs"
    /\ be_steps' = Append(be_steps, "settle")
    /\ UNCHANGED <<cfgVars, regVars, lockVars, uiVars, server_queue, be_mods,
                   be_acts, rtVars, envVars>>

\* Mutant: the pipeline goes from load_configs straight to the layout config.
BELoadConfigs_ThenLayout ==
    /\ be_pc = "load_configs"
    /\ map_lock = "none"
    /\ config' = get_config(disk)
    /\ mod_cfg' = [m \in ModuleIds |->
                     IF m \in module_map
                     THEN ParsedModuleConfig(get_config(disk), m, mod_cfg[m])
                     ELSE mod_cfg[m]]
    /\ be_pc' = "load_layout_config"
    /\ be_steps' = Append(be_steps, "load_configs")
    /\ UNCHANGED <<disk, css, layout_cfg, regVars, lockVars, uiVars, server_queue,
                   be_mods, be_acts, rtVars, envVars>>

\* Mutant: the reload loads the modules the new configuration lists.
BELoadConfigs_ReloadsModules ==
    /\ be_pc = "load_configs"
    /\ map_lock = "none"
    /\ config' = get_config(disk)
    /\ module_order' = load_modules(get_config(disk).loaded_modules)
    /\ module_map' = Range(module_order')
    /\ mod_cfg' = [m \in ModuleIds |->
                     IF m \in module_map'
                     THEN ParsedModuleConfig(get_config(disk), m, mod_cfg[m])
                     ELSE mod_cfg[m]]
    /\ be_pc' = "update_general_configs"
    /\ be_steps' = Append(be_steps, "load_configs")
    /\ UNCHANGED <<disk, css, layout_cfg, layout_name, layout_built, layout_acts,
                   act_map, producers, height, lockVars, uiVars, server_queue,
                   be_mods, be_acts, rtVars, envVars>>

\* load_configs: read the config, hand every module its block
\* (module_map.blocking_lock() for the length of the loop).
BELoadConfigs ==
    /\ be_pc = "load_configs"
    /\ map_lock = "none"
    /\ config' = get_config(disk)
    /\ mod_cfg' = [m \in ModuleIds |->
                     IF m \in module_map
                     THEN ParsedModuleConfig(get_config(disk), m, mod_cfg[m])
                     ELSE mod_cfg[m]]
    /\ be_pc' = "update_general_configs"
    /\ be_steps' = Append(be_steps, "load_configs")
    /\ UNCHANGED <<disk, css, layout_cfg, regVars, lockVars, uiVars, server_queue,
                   be_mods, be_acts, rtVars, envVars>>

\* update_general_configs: module_map.blocking_lock(), held over the loops.
BEUpdateStart ==
    /\ be_pc = "update_general_configs"
    /\ map_lock = "none"
    /\ map_lock' = "be"
    /\ \E order \in Orders(module_map) : be_mods' = order
    /\ be_acts' = <<>>
    /\ be_pc' = "upd_module"
    /\ UNCHANGED <<cfgVars, regVars, layout_lock, actmap_lock, act_lock, uiVars,
                   server_queue, be_steps, rtVars, envVars>>

\* for module in ...: lock the module's activity map for the inner loop.
BEUpdateModule ==
    /\ be_pc = "upd_module"
    /\ be_mods # <<>>
    /\ actmap_lock[Head(be_mods)] = "none"
    /\ actmap_lock' = [actmap_lock EXCEPT ![Head(be_mods)] = "be"]
    /\ \E order \in Orders({<<Head(be_mods), n>> : n \in act_map[Head(be_mods)]}) :
          be_acts' = order
    /\ be_pc' = "upd_activity"
    /\ UNCHANGED <<cfgVars, regVars, map_lock, layout_lock, act_lock, uiVars,
                   server_queue, be_steps, be_mods, rtVars, envVars>>

\* for activity in ...: update_general_configs_on_activity with self.config;
\* after the last one the activity-map guard is dropped.
BEUpdateActivity ==
    /\ BEMayRun
    /\ be_pc \in {"upd_activity", "upd_act_wait"}
    /\ IF be_acts = <<>>
       THEN /\ actmap_lock' = [actmap_lock EXCEPT ![Head(be_mods)] = "none"]
            /\ be_mods' = Tail(be_mods)
            /\ be_pc' = "upd_module"
            /\ UNCHANGED <<height, be_acts>>
       ELSE IF ~act_lock[Head(be_acts)]
            THEN /\ height' = StyledWith(height, Head(be_acts),
                                         config.general_style_config)
                 /\ be_acts' = Tail(be_acts)
                 /\ be_pc' = "upd_activity"
                 /\ UNCHANGED <<actmap_lock, be_mods>>
            ELSE /\ be_pc' = "upd_act_wait"
                 /\ UNCHANGED <<height, actmap_lock, be_mods, be_acts>>
    /\ UNCHANGED <<cfgVars, module_map, module_order, layout_name, layout_built,
                   layout_acts,
                   act_map, producers, map_lock, layout_lock, act_lock, uiVars,
                   server_queue, be_steps, rtVars, envVars>>

\* The outer loop is over: the module_map guard is dropped.
BEUpdateDone ==
    /\ be_pc = "upd_module"
    /\ be_mods = <<>>
    /\ map_lock' = MapLockReleased
    /\ be_pc' = "load_layout_config"
    /\ be_steps' = Append(be_steps, "update_general_configs")
    /\ UNCHANGED <<cfgVars, regVars, layout_lock, actmap_lock, act_lock, uiVars,
                   server_queue, be_mods, be_acts, rtVars, envVars>>

\* Mutant: the reload hands the layout the block keyed by the configured
\* layout name.
BELoadLayoutConfig_ConfiguredName ==
    /\ be_pc = "load_layout_config"
    /\ layout_lock = "none"
    /\ layout_cfg' = ParsedLayoutConfig(config, load_layout_manager(config.layout),
                                        layout_cfg)
    /\ be_pc' = "load_css"
    /\ be_steps' = Append(be_steps, "load_layout_config")
    /\ UNCHANGED <<disk, config, css, mod_cfg, regVars, lockVars, uiVars,
                   server_queue, be_mods, be_acts, rtVars, envVars>>

\* load_layout_config: layout.blocking_lock(), parse the block under its name.
BELoadLayoutConfig ==
    /\ be_pc = "load_layout_config"
    /\ layout_lock = "none"
    /\ layout_cfg' = ParsedLayoutConfig(config, layout_name, layout_cfg)
    /\ be_pc' = "load_css"
    /\ be_steps' = Append(be_steps, "load_layout_config")
    /\ UNCHANGED <<disk, config, css, mod_cfg, regVars, lockVars, uiVars,
                   server_queue, be_mods, be_acts, rtVars, envVars>>

BELoadCss ==
    /\ be_pc = "load_css"
    /\ css' = load_css(disk, css)
    /\ be_pc' = "restart_producer_rt"
    /\ be_steps' = Append(be_steps, "load_css")
    /\ UNCHANGED <<disk, config, mod_cfg, layout_cfg, regVars, lockVars, uiVars,
                   server_queue, be_mods, be_acts, rtVars, envVars>>

\* restart_producer_rt, first statement: producers_shutdown.blocking_send(()).
\* The channel holds one message and gets at most one: the send returns at once.
BERestartShutdown ==
    /\ be_pc = "restart_producer_rt"
    /\ worker[producers_shutdown] = "alive"
    /\ worker' = [worker EXCEPT ![producers_shutdown] = "signalled"]
    /\ be_pc' = "restart_new_rt"
    /\ UNCHANGED <<cfgVars, regVars, lockVars, uiVars, server_queue, be_steps,
                   be_mods, be_acts, producers_handle, producers_shutdown, inv,
                   tasks, envVars>>

\* Mutant: the new runtime is created and its handle and sender are dropped.
BERestartNewRt_NotStored ==
    /\ be_pc = "restart_new_rt"
    /\ producers_handle < MaxReloads
    /\ worker' = [worker EXCEPT ![producers_handle + 1] = "stopped"]
    /\ be_pc' = "restart_replay"
    /\ UNCHANGED <<cfgVars, regVars, lockVars, uiVars, server_queue, be_steps,
                   be_mods, be_acts, producers_handle, producers_shutdown, inv,
                   tasks, envVars>>

\* get_new_tokio_rt() and the two assignments.
BERestartNewRt ==
    /\ be_pc = "restart_new_rt"
    /\ producers_handle < MaxReloads
    /\ LET g == producers_handle + 1
       IN /\ worker' = [worker EXCEPT ![g] = "alive"]
          /\ producers_handle' = g
          /\ producers_shutdown' = g
    /\ be_pc' = "restart_replay"
    /\ UNCHANGED <<cfgVars, regVars, lockVars, uiVars, server_queue, be_steps,
                   be_mods, be_acts, inv, tasks, envVars>>

\* Mutant: the replay stops after the first producer of a module.
Replayed_FirstOnly == {r \in Regs : r[1] \in module_map /\ r[2] = 1 /\ Len(producers[r[1]]) >= 1}

\* The producers restart_producer_rt invokes: all of every module.
Replayed == {r \in Regs : r[1] \in module_map /\ r[2] <= Len(producers[r[1]])}

\* Mutant: the replay passes the handle of the generation before the new one.
BERestartReplay_OldHandle ==
    /\ be_pc = "restart_replay"
    /\ map_lock = "none"
    /\ inv' = InvokedOn(inv, Replayed, producers_handle - 1)
    /\ tasks' = SpawnedOn(tasks, Replayed, producers_handle - 1, worker)
    /\ be_pc' = "idle"
    /\ be_steps' = Append(be_steps, "restart_producer_rt")
    /\ UNCHANGED <<cfgVars, regVars, lockVars, uiVars, server_queue, be_mods,
                   be_acts, producers_handle, producers_shutdown, worker, envVars>>

\* The replay loop (module_map.blocking_lock() held over it).
BERestartReplay ==
    /\ be_pc = "restart_replay"
    /\ map_lock = "none"
    /\ inv' = InvokedOn(inv, Replayed, producers_handle)
    /\ tasks' = SpawnedOn(tasks, Replayed, producers_handle, worker)
    /\ be_pc' = "idle"
    /\ be_steps' = Append(be_steps, "restart_producer_rt")
    /\ UNCHANGED <<cfgVars, regVars, lockVars, uiVars, server_queue, be_mods,
                   be_acts, producers_handle, producers_shutdown, worker, envVars>>

BEStep ==
    \/ BERecv
    \/ BESettle
    \/ BELoadConfigs
    \/ BEUpdateStart
    \/ BEUpdateModule
    \/ BEUpdateActivity
    \/ BEUpdateDone
    \/ BELoadLayoutConfig
    \/ BELoadCss
    \/ BERestartShutdown
    \/ BERestartNewRt
    \/ BERestartReplay

\* ----------------------------------------------------------- behaviours
Next ==
    \/ InitializeServer
    \/ \E cmd \in Commands : EnvSend(cmd)
    \/ \E kind \in {"Create", "Modify", "Access"}, content \in DiskStates :
          WatcherEvent(kind, content)
    \/ \E g \in Gens : WorkerExit(g)
    \/ \E a \in Activities : ProducerLock(a)
    \/ \E a \in Activities : ProducerUnlock(a)
    \/ UIStep
    \/ BEStep

Spec == Init /\ [][Next]_vars

\* Startup alone, over every startup document: what load_modules,
\* load_layout_manager and get_config compute.
InitStartup == InitFrom(StartupDisks)
NextStartup == InitializeServer
SpecStartup == InitStartup /\ [][NextStartup]_vars


\* ------------------------------------------------------------- claims
Registered(r) == r[2] <= Len(producers[r[1]])
InModuleMap == {a \in Activities : a[2] \in act_map[a[1]]}
IsPrefix(s, t) == Len(s) <= Len(t) /\ SubSeq(t, 1, Len(s)) = s
PipelineOrder ==
    <<"settle", "load_configs", "update_general_configs", "load_layout_config",
      "load_css", "restart_producer_rt">>

\* C1: whenever the UI consumer handles an AddProducer (the module's producer
\* list grows by one), the producer just registered is invoked on the
\* generation App.producers_handle names at that moment.
C1_AddProducerGetsCurrentHandle ==
    [][\A m \in ModuleIds :
          Len(producers'[m]) = Len(producers[m]) + 1 =>
             inv'[<<<<m, Len(producers'[m])>>, producers_handle>>] = 1]_vars

\* C2: no producer has been invoked on generation g+1 while it still has a
\* task on generation g whose worker has not stopped.
C2_ReplayAfterShutdownAcknowledged ==
    \A r \in Regs : \A g \in Gens \ {MaxReloads} :
        (inv[<<r, g + 1>>] > 0 /\ <<r, g>> \in tasks) => worker[g] = "stopped"

\* C3: every step of the UI consumer is taken while App records one pair,
\* handle and shutdown sender of the same generation, whose worker has not
\* been sent the shutdown signal: none falls inside a restart.
C3_RestartAtomicForUI ==
    [][ui_pc' # ui_pc =>
          /\ producers_handle = producers_shutdown
          /\ worker[producers_handle] = "alive"
          /\ be_pc \notin {"restart_producer_rt", "restart_new_rt", "restart_replay"}]_vars

\* C3 witness: the UI consumer is about to handle a command after a restart
\* whose old worker is still shutting down.
C3_Witness ==
    /\ ui_pc \in {"ap_lock", "aa_layout", "ra_lock"}
    /\ producers_handle = 1
    /\ worker[0] = "signalled"

\* C4: the replay of a restart invokes every registered producer exactly
\* once, on the new generation, and invokes nothing on any other generation.
C4_ReplayInvokesEveryProducerOnce ==
    [][(be_pc = "restart_replay" /\ be_pc' = "idle") =>
          \A r \in Regs : \A g \in Gens :
             inv'[<<r, g>>] =
                IF Registered(r) /\ g = producers_handle THEN 1 ELSE inv[<<r, g>>]]_vars

\* C4 witness: a restart is over and replayed two producers of one module
\* and one of another on the generation it created.
C4_Witness ==
    /\ be_pc = "idle"
    /\ producers_handle = 1
    /\ \E m \in ModuleIds : Len(producers[m]) = 2
          /\ inv[<<<<m, 1>>, 1>>] = 1 /\ inv[<<<<m, 2>>, 1>>] = 1

\* C5: the steps a ReloadConfig has finished are always an initial part of
\* the fixed pipeline order, and a run that is over finished them all.
C5_PipelineOrder ==
    /\ IsPrefix(be_steps, PipelineOrder)
    /\ (be_pc = "idle" => be_steps \in {<<>>, PipelineOrder})
    /\ (be_pc = "restart_producer_rt" => be_steps = SubSeq(PipelineOrder, 1, 5))

\* C5 witness: a reload ran all six steps, styling a registered activity
\* with the height of the reloaded config on the way.
C5_Witness ==
    /\ be_pc = "idle"
    /\ be_steps = PipelineOrder
    /\ \E a \in InModuleMap : height[a] = config.general_style_config.minimal_height
    /\ config # ConfigDefault

\* C6: a ReloadConfig that waits in the channel or is being handled can
\* still be served: the server consumer is not stuck for good in a
\* blocking call while the process lives.
C6_ReloadEventuallyProcessed ==
    (~Aborted /\ (server_queue > 0 \/ be_pc # "idle")) => ~BEBlocked

\* C7 as stated: every activity in its module's map is in the layout.
C7_MapImpliesLayout == InModuleMap \subseteq layout_acts

\* C7 amended: every activity in its module's map is in the layout, except
\* the one a RemoveActivity in progress has taken out of the layout and not
\* yet unregistered.
C7_MapImpliesLayoutExceptRemoving ==
    \A a \in InModuleMap :
        \/ a \in layout_acts
        \/ /\ ui_cmd = [kind |-> "RemoveActivity", module |-> a[1], name |-> a[2]]
           /\ ui_pc \in {"ra_unreg", "ra_unreg_wait"}

\* C7 witness: inside AddActivity the activity is in the layout and not yet
\* in its module's map, while another activity is in both.
C7_Witness ==
    /\ ui_cmd.kind = "AddActivity"
    /\ ui_pc \in {"aa_style", "aa_style_wait", "aa_lock", "aa_lock_wait"}
    /\ CmdAct \in layout_acts /\ CmdAct \notin InModuleMap
    /\ InModuleMap # {}

C9_RemoveRunsToCompletion ==
    ~(/\ ui_pc = "ra_unreg_wait"
      /\ actmap_lock[ui_cmd.module] = "ui"
      /\ CmdAct \in InModuleMap)

\* C10: a RemoveActivity whose name is not in the module's map does not
\* abort the UI consumer.
C10_UnknownActivityIsRecoverable == ui_pc # "panic_activity_not_found"

\* C11: a step of the UI consumer that looks up the module of an AddProducer
\* or AddActivity command and does not find it in module_map ends in the
\* panic (or still waits for the lock) and registers no producer, invokes
\* none and registers no activity; after the panic the consumer takes no
\* further step and the queue is never read again.
C11_UnknownModuleIsFatal ==
    [][/\ (/\ ui_pc \in {"ap_lock", "ap_lock_wait", "aa_lock", "aa_lock_wait"}
           /\ ui_cmd.module \notin module_map
           /\ ui_pc' # ui_pc)
          => /\ ui_pc' \in {"panic_module_not_found", "ap_lock_wait", "aa_lock_wait"}
             /\ producers' = producers
             /\ inv' = inv
             /\ act_map' = act_map
       /\ ui_pc = "panic_module_not_found"
          => UNCHANGED <<ui_pc, ui_queue, producers, inv, act_map, layout_acts>>]_vars

\* C11 witness: the consumer panicked on an AddProducer for a module that is
\* not loaded, with a later command still in the queue.
C11_Witness ==
    /\ ui_pc = "panic_module_not_found"
    /\ ui_cmd.kind = "AddProducer"
    /\ ui_cmd.module \notin module_map
    /\ ui_queue # <<>>

\* C12: load_modules returns every statically known module in definition
\* order when the configured list contains "all", and otherwise the
\* configured names that are known, in configuration order (unknown names
\* skipped); module_map's keys are then the returned names.
KnownInOrder(names) == SelectSeq(names, LAMBDA n : n \in Range(MODULES))
C12_LoadReturnsNamesInOrder ==
    phase = "running" =>
       /\ module_order = IF \E i \in DOMAIN config.loaded_modules :
                               config.loaded_modules[i] = "all"
                         THEN MODULES
                         ELSE KnownInOrder(config.loaded_modules)
       /\ module_map = Range(module_order)

\* C12 witness: a list naming the modules against definition order, with an
\* unknown name between them.
C12_Witness ==
    /\ phase = "running"
    /\ config.loaded_modules = <<"B", "Z", "A">>
    /\ module_order = <<"B", "A">>
    /\ module_map = {"A", "B"}

\* C13: a reload that finds an invalid (unparsable or unreadable) document
\* leaves App.config as it was before the reload.
C13_InvalidReloadKeepsConfig ==
    [][(be_pc = "load_configs" /\ be_pc' # be_pc /\ ~disk.ron_ok)
          => config' = config]_vars

\* C14: reading the configuration always yields a document and startup goes
\* on: the parsed document when the file parses, and otherwise the default
\* document (loaded_modules ["all"], layout SimpleLayout, default style, no
\* module or layout blocks), whatever the file holds.
C14_ReadNeverFails ==
    phase = "running" =>
       config = IF disk.ron_ok
                THEN disk.ron
                ELSE [loaded_modules |-> <<"all">>,
                      layout |-> <<"SimpleLayout">>,
                      general_style_config |-> [minimal_height |-> 40],
                      layout_configs |-> <<>>,
                      module_config |-> <<>>]

\* C14 witness: startup finished over a file that does not parse (its text
\* names module B alone and an unknown layout) and loaded every module.
C14_Witness ==
    /\ phase = "running"
    /\ ~disk.ron_ok
    /\ disk.ron.loaded_modules = <<"B">>
    /\ disk.ron.layout = <<"NoSuchLayout">>
    /\ module_order = MODULES
    /\ layout_name = "SimpleLayout"

\* C15: when no reload is under way, the style the AddActivity handler sets
\* on the activity's widget is the one of App.config, the configuration the
\* last completed reload (or startup) loaded.
C15_AddActivityAppliesCurrentStyle ==
    [][(/\ ui_pc \in {"aa_style", "aa_style_wait"}
        /\ ui_pc' = "aa_lock"
        /\ be_pc \in {"idle", "settle"})
          => height'[CmdAct] = config.general_style_config.minimal_height]_vars

\* C16: a generation that has been sent the shutdown signal can always take
\* its exit step (so a fairly scheduled worker terminates), a superseded
\* generation has been sent the signal, and a generation whose worker has
\* stopped has no task, whatever was spawned through a retained handle.
C16_SupersededGenerationsStop ==
    \A g \in Gens :
       /\ (worker[g] = "signalled" /\ ~Aborted) => ENABLED WorkerExit(g)
       /\ g < producers_handle => worker[g] \in {"signalled", "stopped"}
       /\ worker[g] = "stopped" => \A r \in Regs : <<r, g>> \notin tasks

\* C16 witness: generation 0 has stopped and a producer registered after the
\* restart was invoked with the retained generation-0 handle only.
C16_Witness ==
    /\ worker[0] = "stopped"
    /\ producers_handle = 1
    /\ \E m \in ModuleIds :
          /\ Len(producers[m]) = 2
          /\ inv[<<<<m, 1>>, 1>>] = 1
          /\ inv[<<<<m, 2>>, 0>>] = 1
          /\ inv[<<<<m, 2>>, 1>>] = 0

\* C17: a consumer suspended at an await in the middle of a command does not
\* hold the module_map mutex: the server consumer waiting for an activity in
\* update_general_configs, the UI consumer waiting for the activity inside
\* RemoveActivity.
C17_NoRegistryLockAcrossAwait ==
    /\ (be_pc = "upd_act_wait" /\ UISuspended) => map_lock # "be"
    /\ (ui_pc = "ra_act_wait" /\ BESuspended) => map_lock # "ui"

\* C18: the server consumer is never inside a blocking acquire of the
\* module_map or layout mutex while the UI consumer, suspended waiting for
\* an activity inside RemoveActivity, holds that mutex on the same thread.
C18_BackendNeverBlocksOnSuspendedUI ==
    ~(ui_pc = "ra_act_wait" /\ BEBlocked)

\* C19: startup constructs exactly one layout instance.
C19_OneLayoutInstanceConstructed ==
    phase = "running" => layout_built = 1

\* C20: once startup is over no step changes the active layout instance or
\* constructs another, and the only step that hands the layout a config
\* block is load_layout_config, with the block App.config keys by the active
\* instance's own name (no block, and nothing parsed, when the key is absent).
C20_ReloadKeepsLayoutInstance ==
    [][phase = "running" =>
          /\ layout_name' = layout_name
          /\ layout_built' = layout_built
          /\ layout_cfg' # layout_cfg =>
                /\ be_pc = "load_layout_config"
                /\ layout_name \in DOMAIN config.layout_configs
                /\ layout_cfg' = config.layout_configs[layout_name]
          /\ (be_pc = "load_layout_config" /\ be_pc' = "load_css"
                 /\ layout_name \notin DOMAIN config.layout_configs)
                => layout_cfg' = layout_cfg]_vars

\* C20 witness: a finished reload loaded a configuration naming GridLayout
\* while SimpleLayout, chosen at startup, is active; the layout was handed
\* the SimpleLayout block.
C20_Witness ==
    /\ be_pc = "idle"
    /\ be_steps = PipelineOrder
    /\ layout_name = "SimpleLayout"
    /\ config.layout = <<"GridLayout">>
    /\ layout_cfg = config.layout_configs["SimpleLayout"]

\* C21: no registration of a producer is invoked twice with the handle of the
\* same generation, by AddProducer, by a replay, or by one of each.
C21_OncePerGeneration ==
    \A r \in Regs : \A g \in Gens : inv[<<r, g>>] <= 1

\* C21 witness: after two restarts a producer registered before the first
\* has been invoked on all three generations, and one registered between
\* the restarts on the generation AddProducer used and on the last.
C21_Witness ==
    /\ producers_handle = 2
    /\ be_pc = "idle"
    /\ \E m \in ModuleIds :
          /\ Len(producers[m]) = 2
          /\ \A g \in 0..2 : inv[<<<<m, 1>>, g>>] = 1
          /\ inv[<<<<m, 2>>, 1>>] = 0
          /\ inv[<<<<m, 2>>, 2>>] = 1

\* C22: no step of the server consumer (receiving a ReloadConfig, any stage
\* of the pipeline) changes the keys of module_map, a module's registered
\* activities, a module's producer list or the activities in the layout.
C22_ReloadKeepsMembership ==
    [][<<be_pc, be_steps, be_mods, be_acts>>' # <<be_pc, be_steps, be_mods, be_acts>>
          => UNCHANGED <<module_map, act_map, producers, layout_acts>>]_vars

\* C22 witness: a finished reload loaded a configuration that lists A and an
\* unknown module, while A and B stay loaded and B keeps its producer and
\* its activity, in the map and in the layout.
C22_Witness ==
    /\ be_pc = "idle"
    /\ be_steps = PipelineOrder
    /\ config.loaded_modules = <<"A", "Z">>
    /\ module_map = {"A", "B"}
    /\ Len(producers["B"]) = 1
    /\ "x" \in act_map["B"]
    /\ <<"B", "x">> \in layout_acts

====
